---------------------------- MODULE Spec2Model ----------------------------
(***************************************************************************)
(* The softphone call-session coordinator of the web front end:           *)
(*   src/frontend/web/src/store/softphone.ts      (the zustand store)     *)
(*   src/frontend/web/src/lib/signaling/client.ts (SignalingClient)       *)
(*   src/unnamed/part_009, lines 112-288          (the Softphone panel)   *)
(*                                                                         *)
(* Scheduling.  The program runs on the browser's event loop.  One TLA+    *)
(* action is one task of that loop: a user gesture, a WebSocket event, a   *)
(* settled getUserMedia / fetch promise or a peer event, together with the *)
(* promise continuations (microtasks) it makes runnable, because no other  *)
(* task runs before the microtask queue is empty.  `await createPeer(..)`  *)
(* awaits a promise that is resolved inside its executor (softphone.ts     *)
(* line 123) and `await ensureLocalStream(..)` returns at once when a      *)
(* stream is held (line 75): both resume as microtasks and are part of the *)
(* action that reached them.  The awaits that let other tasks run are      *)
(* getUserMedia (line 80), fetchAuthToken (line 172) and                   *)
(* SignalingClient.connect (line 194).                                     *)
(*                                                                         *)
(* Handlers are written as functions from a snapshot of the whole state    *)
(* (the record Cur) to the state they leave, so that the statements of a   *)
(* handler compose in program order; Commit writes the result back.        *)
(***************************************************************************)
EXTENDS Integers, Sequences, FiniteSets, TLC

\* ------------------------------------------------------------------ bounds
\* crypto.randomUUID() calls (call ids made by dial or by call.incoming)
MaxUuid == 2
\* getUserMedia requests
MaxMedia == 2
\* SimplePeer instances constructed
MaxPeers == 2
\* inbound `signal` payloads received
MaxSignals == 3
\* entries appended to eventLog
MaxLog == 4
\* frames handed to WebSocket.send
MaxSent == 2
\* SignalingClient instances constructed
MaxClients == 1
\* connection attempts of the store in the specification of reconnection
MaxReconnects == 2
\* WebSockets opened by direct connect() calls on a client
MaxSockets == 3
\* appendLog calls in the specification of the log alone
MaxAppends == 120

\* ------------------------------------------------------- program constants
\* appendLog keeps eventLog.slice(-49) and adds the new entry
LogKeep == 49

\* ------------------------------------------------------------------ values
\* null for object references (streams, peers, clients, sockets)
Null == 0
\* null for string-valued fields
NullStr == "null"
\* null callId; call ids are tuples <<"uuid", n>> or <<"remote", n>>
NoCall == << >>

CallStates == {"idle", "connecting", "ringing", "in-call", "ended", "error"}
DialNumbers == {"", "1555"}

VARIABLES
  \* SoftphoneStore fields (softphone.ts 27-45, 145-154)
  callState, signalingStatus, dialNumber, incomingNumber, callId,
  statusMessage, error, eventLog, localStream, remoteStream,
  \* module-level singletons (softphone.ts 47-51)
  signalingClient, peer, queuedSignals,
  \* the objects the program has created
  clients,      \* SignalingClient instances: #socket, #connectionPromise
  sockets,      \* WebSocket instances: readyState, owner, connect promise
  peers,        \* SimplePeer instances
  nStreams,     \* MediaStream objects created so far (ids 1..nStreams)
  stopped,      \* streams whose tracks have all been stopped
  \* suspended async invocations
  pendingMedia, \* dial/answer invocations awaiting getUserMedia
  pendingToken, \* connectSignaling invocations awaiting fetchAuthToken
  \* environment bookkeeping
  sent,         \* frames handed to WebSocket.send, in order
  nUuid,        \* crypto.randomUUID() calls so far
  nMedia,       \* getUserMedia requests so far
  nSignals,     \* inbound signal payloads so far (receipt numbers)
  last          \* the task that ran last, and whether it threw

vars == << callState, signalingStatus, dialNumber, incomingNumber, callId,
           statusMessage, error, eventLog, localStream, remoteStream,
           signalingClient, peer, queuedSignals, clients, sockets, peers,
           nStreams, stopped, pendingMedia, pendingToken, sent, nUuid,
           nMedia, nSignals, last >>

\* The whole state as one record, the argument of every handler below.
Cur ==
  [ callState |-> callState, signalingStatus |-> signalingStatus,
    dialNumber |-> dialNumber, incomingNumber |-> incomingNumber,
    callId |-> callId, statusMessage |-> statusMessage, error |-> error,
    eventLog |-> eventLog, localStream |-> localStream,
    remoteStream |-> remoteStream, signalingClient |-> signalingClient,
    peer |-> peer, queuedSignals |-> queuedSignals, clients |-> clients,
    sockets |-> sockets, peers |-> peers, nStreams |-> nStreams,
    stopped |-> stopped, pendingMedia |-> pendingMedia,
    pendingToken |-> pendingToken, sent |-> sent, nUuid |-> nUuid,
    nMedia |-> nMedia, nSignals |-> nSignals, last |-> last ]

\* The bounds of the exploration, as a guard on the state a task leaves.
Bounded(s) ==
  /\ s.nUuid <= MaxUuid
  /\ s.nMedia <= MaxMedia
  /\ Len(s.peers) <= MaxPeers
  /\ s.nSignals <= MaxSignals
  /\ Len(s.eventLog) <= MaxLog
  /\ Len(s.sent) <= MaxSent

Commit(s) ==
  /\ Bounded(s)
  /\ callState' = s.callState
  /\ signalingStatus' = s.signalingStatus
  /\ dialNumber' = s.dialNumber
  /\ incomingNumber' = s.incomingNumber
  /\ callId' = s.callId
  /\ statusMessage' = s.statusMessage
  /\ error' = s.error
  /\ eventLog' = s.eventLog
  /\ localStream' = s.localStream
  /\ remoteStream' = s.remoteStream
  /\ signalingClient' = s.signalingClient
  /\ peer' = s.peer
  /\ queuedSignals' = s.queuedSignals
  /\ clients' = s.clients
  /\ sockets' = s.sockets
  /\ peers' = s.peers
  /\ nStreams' = s.nStreams
  /\ stopped' = s.stopped
  /\ pendingMedia' = s.pendingMedia
  /\ pendingToken' = s.pendingToken
  /\ sent' = s.sent
  /\ nUuid' = s.nUuid
  /\ nMedia' = s.nMedia
  /\ nSignals' = s.nSignals
  /\ last' = s.last

\* the calls whose immediate repetition is recorded
Repeatable == {"hangup", "disconnectSignaling"}

\* Records which task ran: `again` is TRUE when a Repeatable call is made
\* twice in a row, `threw` when the handler left by an exception nobody
\* caught, `caught` when a catch block of the store ran.
Ran(s, op, threw) ==
  [s EXCEPT !.last = [op |-> op,
                      again |-> op \in Repeatable /\ s.last.op = op,
                      threw |-> threw, caught |-> FALSE]]

Caught(s) == [s EXCEPT !.last.caught = TRUE]

Init ==
  /\ callState = "idle"
  /\ signalingStatus = "disconnected"
  /\ dialNumber = ""
  /\ incomingNumber = NullStr
  /\ callId = NoCall
  /\ statusMessage = NullStr
  /\ error = NullStr
  /\ eventLog = << >>
  /\ localStream = Null
  /\ remoteStream = Null
  /\ signalingClient = Null
  /\ peer = Null
  /\ queuedSignals = << >>
  /\ clients = << >>
  /\ sockets = << >>
  /\ peers = << >>
  /\ nStreams = 0
  /\ stopped = {}
  /\ pendingMedia = << >>
  /\ pendingToken = 0
  /\ sent = << >>
  /\ nUuid = 0
  /\ nMedia = 0
  /\ nSignals = 0
  /\ last = [op |-> "init", again |-> FALSE, threw |-> FALSE, caught |-> FALSE]

\* --------------------------------------------------------------- EventLog
\* eventLog: [...state.eventLog.slice(-49), entry]
LastN(q, n) == IF Len(q) <= n THEN q ELSE SubSeq(q, Len(q) - n + 1, Len(q))

\* appendLog with slice(-50): one entry too many is kept
appendLogKeepsFifty(s, message) ==
  [s EXCEPT !.eventLog = Append(LastN(@, LogKeep + 1), message)]

appendLog(s, message) ==
  [s EXCEPT !.eventLog = Append(LastN(@, LogKeep), message)]

\* ------------------------------------------------------- SignalingClient
\* get readyState(): this.#socket?.readyState ?? WebSocket.CLOSED
readyState(s, c) ==
  IF s.clients[c].socket = Null THEN "CLOSED"
  ELSE s.sockets[s.clients[c].socket].readyState

\* send() that only checks that #socket is set
SendThrowsWithoutSocket(s, c) == s.clients[c].socket = Null

\* send(): throws unless #socket is set and OPEN
SendThrows(s, c) ==
  \/ s.clients[c].socket = Null
  \/ s.sockets[s.clients[c].socket].readyState # "OPEN"

\* send(): this.#socket.send(JSON.stringify(event)), when it does not throw
ClientSend(s, c, event) ==
  [s EXCEPT !.sent = Append(@, [event EXCEPT !.socket = s.clients[c].socket])]

\* An outbound event; fields an event type does not carry are left empty.
Event(type, id, to, data) ==
  [type |-> type, callId |-> id, to |-> to, data |-> data, socket |-> Null]

\* WebSocket.close(): CONNECTING or OPEN becomes CLOSING, else no effect
SocketClose(s, k) ==
  IF s.sockets[k].readyState \in {"CONNECTING", "OPEN"}
  THEN [s EXCEPT !.sockets[k].readyState = "CLOSING"]
  ELSE s

\* disconnect() that closes the socket and keeps referring to it
ClientDisconnectKeepsSocket(s, c) ==
  IF s.clients[c].socket # Null
  THEN SocketClose(s, s.clients[c].socket) ELSE s

\* disconnect(): close the socket if any, forget socket and promise
ClientDisconnect(s, c) ==
  LET s1 == IF s.clients[c].socket # Null
            THEN SocketClose(s, s.clients[c].socket) ELSE s
  IN [s1 EXCEPT !.clients[c] = [socket |-> Null, connectionPromise |-> Null]]

\* connect(token): TRUE when the call opens a new WebSocket
ConnectOpensSocket(s, c) ==
  /\ ~(s.clients[c].socket # Null /\ readyState(s, c) = "OPEN")
  /\ s.clients[c].connectionPromise = Null

\* connect(token): the new socket, CONNECTING, with its pending promise.
\* A promise is identified by the socket it was created with; `awaited`
\* says that a connectSignaling invocation is suspended on it.
ClientConnect(s, c, awaited) ==
  IF ~ConnectOpensSocket(s, c) THEN s
  ELSE LET k == Len(s.sockets) + 1
       IN [s EXCEPT
             !.sockets = Append(@, [client |-> c, readyState |-> "CONNECTING",
                                    opened |-> FALSE, promise |-> "pending",
                                    awaited |-> awaited]),
             !.clients[c] = [socket |-> k, connectionPromise |-> k]]

\* ------------------------------------------------------------ media, peer
\* stopStream: stream?.getTracks().forEach(track => track.stop())
stopStream(s, stream) ==
  IF stream = Null THEN s ELSE [s EXCEPT !.stopped = @ \cup {stream}]

\* cleanupPeer: detach and destroy the held peer, stop and forget both
\* streams, drop the buffered signals
cleanupPeer(s) ==
  LET s1 == IF s.peer # Null
            THEN [s EXCEPT !.peers[s.peer].listening = FALSE,
                           !.peers[s.peer].destroyed = TRUE,
                           !.peer = Null]
            ELSE s
      s2 == stopStream(stopStream(s1, s1.localStream), s1.remoteStream)
  IN [s2 EXCEPT !.localStream = Null, !.remoteStream = Null,
                !.queuedSignals = << >>]

\* createPeer: a new SimplePeer with the five listeners attached.  `born` is
\* the number of payloads received before the instance existed and `flushed`
\* the number replayed into it from the buffer.
NewPeer(initiator, id, born) ==
  [callId |-> id, initiator |-> initiator, destroyed |-> FALSE,
   listening |-> TRUE, connected |-> FALSE, streamed |-> FALSE,
   delivered |-> << >>, born |-> born, flushed |-> 0]

\* peer.signal(data) on instance p: simple-peer takes the payload unless the
\* instance is destroyed
PeerTakes(s, p) == ~s.peers[p].destroyed

Deliver(s, p, data) == [s EXCEPT !.peers[p].delivered = Append(@, data)]

\* queuedSignals.forEach((signal) => peer?.signal(signal))
RECURSIVE FlushInto(_, _, _)
FlushInto(s, p, queue) ==
  IF queue = << >> THEN s
  ELSE FlushInto(Deliver(s, p, Head(queue)), p, Tail(queue))

\* CreateAndFlush without `queuedSignals = []`: the buffer survives the flush
CreateAndFlushKeepsBuffer(s, initiator, id) ==
  LET p == Len(s.peers) + 1
      s1 == [s EXCEPT !.peers = Append(@, NewPeer(initiator, id, s.nSignals)),
                      !.peer = p]
      s2 == FlushInto(s1, p, s1.queuedSignals)
  IN [s2 EXCEPT !.peers[p].flushed = Len(s1.queuedSignals)]

\* peer = await createPeer(..); queuedSignals.forEach(..); queuedSignals = []
CreateAndFlush(s, initiator, id) ==
  LET p == Len(s.peers) + 1
      s1 == [s EXCEPT !.peers = Append(@, NewPeer(initiator, id, s.nSignals)),
                      !.peer = p]
      s2 == FlushInto(s1, p, s1.queuedSignals)
  IN [s2 EXCEPT !.queuedSignals = << >>,
                !.peers[p].flushed = Len(s1.queuedSignals)]

\* ensureLocalStream after getUserMedia resolved: a new stream is stored
StoreNewStream(s) ==
  [s EXCEPT !.nStreams = @ + 1, !.localStream = s.nStreams + 1]

\* ------------------------------------------------------- startOutgoingCall
\* catch of startOutgoingCall
DialCatch(s, message) ==
  appendLog([Caught(s) EXCEPT !.callState = "error", !.error = message,
                              !.statusMessage = message],
            <<"Call error", message>>)

\* DialAfterMedia that reads dialNumber again when it sends
DialAfterMediaRereads(s, task, peerOk) ==
  IF ~peerOk THEN DialCatch(s, "No WebRTC support")
  ELSE LET s1 == CreateAndFlush(s, TRUE, task.callId)
           c == s1.signalingClient
       IN IF c = Null THEN DialCatch(s1, "TypeError")
          ELSE IF SendThrows(s1, c)
               THEN DialCatch(s1, "Signaling socket not connected")
               ELSE ClientSend(s1, c, Event("call.initiate", task.callId,
                                            s1.dialNumber, Null))

\* the try block of startOutgoingCall from createPeer on; peerOk says
\* whether `new SimplePeer` succeeds
DialAfterMedia(s, task, peerOk) ==
  IF ~peerOk THEN DialCatch(s, "No WebRTC support")
  ELSE LET s1 == CreateAndFlush(s, TRUE, task.callId)
           c == s1.signalingClient
       IN IF c = Null THEN DialCatch(s1, "TypeError")
          ELSE IF SendThrows(s1, c)
               THEN DialCatch(s1, "Signaling socket not connected")
               ELSE ClientSend(s1, c, Event("call.initiate", task.callId,
                                            task.to, Null))

\* a trim() that strips nothing: only the empty string counts as blank
BlankOnlyEmpty(number) == number = ""

\* dialNumber.trim() is empty
Blank(number) == number \in {"", " "}

\* startOutgoingCall that generates a callId and does not store it
startOutgoingCallDropsCallId(s, peerOk) ==
  IF s.signalingClient = Null \/ readyState(s, s.signalingClient) # "OPEN"
  THEN appendLog(s, <<"Cannot place call without signaling connection">>)
  ELSE IF Blank(s.dialNumber)
  THEN appendLog(s, <<"Enter a destination number before calling">>)
  ELSE LET id == <<"uuid", s.nUuid + 1>>
           task == [kind |-> "dial", callId |-> id, to |-> s.dialNumber]
           s1 == [s EXCEPT !.nUuid = @ + 1, !.callState = "connecting",
                           !.statusMessage = "Placing call...",
                           !.incomingNumber = NullStr]
           s2 == appendLog(s1, <<"Dialing", s.dialNumber>>)
       IN IF s2.localStream # Null
          THEN DialAfterMedia(s2, task, peerOk)
          ELSE [s2 EXCEPT !.nMedia = @ + 1,
                          !.pendingMedia = Append(@, task)]

\* startOutgoingCall up to its first await that lets other tasks run
startOutgoingCall(s, peerOk) ==
  IF s.signalingClient = Null \/ readyState(s, s.signalingClient) # "OPEN"
  THEN appendLog(s, <<"Cannot place call without signaling connection">>)
  ELSE IF Blank(s.dialNumber)
  THEN appendLog(s, <<"Enter a destination number before calling">>)
  ELSE LET id == <<"uuid", s.nUuid + 1>>
           task == [kind |-> "dial", callId |-> id, to |-> s.dialNumber]
           s1 == [s EXCEPT !.nUuid = @ + 1, !.callState = "connecting",
                           !.statusMessage = "Placing call...", !.callId = id,
                           !.incomingNumber = NullStr]
           s2 == appendLog(s1, <<"Dialing", s.dialNumber>>)
       IN IF s2.localStream # Null
          THEN DialAfterMedia(s2, task, peerOk)
          ELSE [s2 EXCEPT !.nMedia = @ + 1,
                          !.pendingMedia = Append(@, task)]

\* ------------------------------------------------------ acceptIncomingCall
\* catch of acceptIncomingCall
AnswerCatch(s, message) ==
  appendLog([Caught(s) EXCEPT !.callState = "error", !.error = message,
                              !.statusMessage = message],
            <<"Answer error", message>>)

\* AnswerAfterMedia that never sends call.answer
AnswerAfterMediaSilent(s, task, peerOk) ==
  IF ~peerOk THEN AnswerCatch(s, "No WebRTC support")
  ELSE [CreateAndFlush(s, FALSE, task.callId)
          EXCEPT !.callState = "connecting",
                 !.statusMessage = "Answering call..."]

\* the try block of acceptIncomingCall from createPeer on
AnswerAfterMedia(s, task, peerOk) ==
  IF ~peerOk THEN AnswerCatch(s, "No WebRTC support")
  ELSE LET s1 == CreateAndFlush(s, FALSE, task.callId)
           c == s1.signalingClient
           s2 == IF c = Null THEN s1
                 ELSE ClientSend(s1, c, Event("call.answer", task.callId,
                                              "", Null))
       IN IF c # Null /\ SendThrows(s1, c)
          THEN AnswerCatch(s1, "Signaling socket not connected")
          ELSE [s2 EXCEPT !.callState = "connecting",
                          !.statusMessage = "Answering call..."]

\* acceptIncomingCall up to its first await that lets other tasks run
acceptIncomingCall(s, peerOk) ==
  IF s.callId = NoCall THEN s
  ELSE LET task == [kind |-> "answer", callId |-> s.callId, to |-> ""]
       IN IF s.localStream # Null
          THEN AnswerAfterMedia(s, task, peerOk)
          ELSE [s EXCEPT !.nMedia = @ + 1, !.pendingMedia = Append(@, task)]

\* ------------------------------------------- getUserMedia promise settles
RemoveAt(q, i) == SubSeq(q, 1, i - 1) \o SubSeq(q, i + 1, Len(q))

\* the invocation pendingMedia[i] resumes after `await getUserMedia`
ResumeAfterMedia(s, i, mediaOk, peerOk) ==
  LET task == s.pendingMedia[i]
      s0 == [s EXCEPT !.pendingMedia = RemoveAt(@, i)]
  IN IF task.kind = "dial"
     THEN IF mediaOk THEN DialAfterMedia(StoreNewStream(s0), task, peerOk)
          ELSE DialCatch(s0, "NotAllowedError")
     ELSE IF mediaOk THEN AnswerAfterMedia(StoreNewStream(s0), task, peerOk)
          ELSE AnswerCatch(s0, "NotAllowedError")

\* ------------------------------------------------------------------ hangup
\* hangup throws when callId is set and the client's send throws
HangupThrows(s) ==
  /\ s.callId # NoCall
  /\ s.signalingClient # Null
  /\ SendThrows(s, s.signalingClient)

\* hangup that forgets to clear callId
hangupKeepsCallId(s) ==
  IF HangupThrows(s) THEN s
  ELSE LET s1 == IF s.callId # NoCall /\ s.signalingClient # Null
                 THEN ClientSend(s, s.signalingClient,
                                 Event("call.ended", s.callId, "", Null))
                 ELSE s
           s2 == cleanupPeer(s1)
           s3 == [s2 EXCEPT !.callState = "ended",
                            !.statusMessage = "Call ended",
                            !.incomingNumber = NullStr]
       IN appendLog(s3, <<"Call ended">>)

hangup(s) ==
  IF HangupThrows(s) THEN s
  ELSE LET s1 == IF s.callId # NoCall /\ s.signalingClient # Null
                 THEN ClientSend(s, s.signalingClient,
                                 Event("call.ended", s.callId, "", Null))
                 ELSE s
           s2 == cleanupPeer(s1)
           s3 == [s2 EXCEPT !.callState = "ended",
                            !.statusMessage = "Call ended",
                            !.callId = NoCall, !.incomingNumber = NullStr]
       IN appendLog(s3, <<"Call ended">>)

\* ---------------------------------------------------- handleSignalingEvent
\* An inbound event; a field the frame does not carry is NoCall / NullStr,
\* and hasData says whether a `signal` frame carries a data payload.
Inbound(type, id, from, message, hasData) ==
  [type |-> type, callId |-> id, from |-> from, message |-> message,
   hasData |-> hasData]

InboundEvents ==
  { Inbound("call.incoming", <<"remote", 1>>, "+1201", NullStr, FALSE),
    Inbound("call.incoming", NoCall, NullStr, NullStr, FALSE),
    Inbound("call.ringing", NoCall, NullStr, NullStr, FALSE),
    Inbound("call.connected", NoCall, NullStr, NullStr, FALSE),
    Inbound("call.ended", NoCall, NullStr, NullStr, FALSE),
    Inbound("call.error", NoCall, NullStr, "busy", FALSE),
    Inbound("call.error", NoCall, NullStr, NullStr, FALSE),
    Inbound("signal", NoCall, NullStr, NullStr, TRUE),
    Inbound("signal", NoCall, NullStr, NullStr, FALSE),
    Inbound("presence", NoCall, NullStr, "agent online", FALSE),
    Inbound("mystery", NoCall, NullStr, NullStr, FALSE) }

\* a ?? b
OrElse(a, b) == IF a = NullStr THEN b ELSE a

\* case 'signal' with a payload: the payload gets the next receipt number;
\* it goes to the held peer, or to the buffer when no peer is held.  A held
\* peer that destroyed itself refuses it (signal() throws into onmessage's
\* try/catch).
\* handleSignal with unshift in place of push: the newest payload goes to
\* the front of the buffer
handleSignalUnshift(s) ==
  LET data == s.nSignals + 1
      s1 == [s EXCEPT !.nSignals = data]
  IN IF s1.peer # Null
     THEN IF PeerTakes(s1, s1.peer) THEN Deliver(s1, s1.peer, data) ELSE s1
     ELSE [s1 EXCEPT !.queuedSignals = <<data>> \o @]

\* handleSignal that buffers the payload as well as handing it to the peer
handleSignalAlsoQueues(s) ==
  LET data == s.nSignals + 1
      s1 == [s EXCEPT !.nSignals = data, !.queuedSignals = Append(@, data)]
  IN IF s1.peer # Null /\ PeerTakes(s1, s1.peer)
     THEN Deliver(s1, s1.peer, data) ELSE s1

handleSignal(s) ==
  LET data == s.nSignals + 1
      s1 == [s EXCEPT !.nSignals = data]
  IN IF s1.peer # Null
     THEN IF PeerTakes(s1, s1.peer) THEN Deliver(s1, s1.peer, data) ELSE s1
     ELSE [s1 EXCEPT !.queuedSignals = Append(@, data)]

\* handleSignalingEvent whose default case fails the call as call.error does
handleSignalingEventFailsUnknown(s, event) ==
  CASE event.type = "call.incoming" ->
         LET fresh == event.callId = NoCall
             id == IF fresh THEN <<"uuid", s.nUuid + 1>> ELSE event.callId
             from == OrElse(event.from, "Unknown")
             s1 == [s EXCEPT !.nUuid = IF fresh THEN @ + 1 ELSE @,
                             !.callId = id, !.callState = "ringing",
                             !.incomingNumber = from,
                             !.statusMessage = "Incoming call"]
         IN appendLog(s1, <<"Incoming call from", from>>)
    [] event.type = "call.ringing" ->
         appendLog([s EXCEPT !.callState = "ringing",
                             !.statusMessage = "Ringing..."],
                   <<"Remote phone ringing">>)
    [] event.type = "call.connected" ->
         appendLog([s EXCEPT !.callState = "in-call",
                             !.statusMessage = "Call connected"],
                   <<"Call connected">>)
    [] event.type = "call.ended" ->
         LET s1 == cleanupPeer(appendLog(s, <<"Remote ended the call">>))
         IN [s1 EXCEPT !.callState = "ended",
                       !.statusMessage = "Call ended by remote",
                       !.callId = NoCall, !.incomingNumber = NullStr]
    [] event.type = "call.error" ->
         LET message == OrElse(event.message, "Call error")
             s1 == appendLog(s, <<message>>)
         IN cleanupPeer([s1 EXCEPT !.callState = "error",
                                   !.statusMessage = message,
                                   !.error = message])
    [] event.type = "signal" ->
         IF event.hasData THEN handleSignal(s) ELSE s
    [] event.type = "presence" ->
         appendLog(s, <<OrElse(event.message, "Presence update")>>)
    [] OTHER ->
         LET s1 == appendLog(s, <<"Unhandled signaling event", event.type>>)
         IN cleanupPeer([s1 EXCEPT !.callState = "error",
                                   !.statusMessage = "Call error",
                                   !.error = "Call error"])

handleSignalingEvent(s, event) ==
  CASE event.type = "call.incoming" ->
         LET fresh == event.callId = NoCall
             id == IF fresh THEN <<"uuid", s.nUuid + 1>> ELSE event.callId
             from == OrElse(event.from, "Unknown")
             s1 == [s EXCEPT !.nUuid = IF fresh THEN @ + 1 ELSE @,
                             !.callId = id, !.callState = "ringing",
                             !.incomingNumber = from,
                             !.statusMessage = "Incoming call"]
         IN appendLog(s1, <<"Incoming call from", from>>)
    [] event.type = "call.ringing" ->
         appendLog([s EXCEPT !.callState = "ringing",
                             !.statusMessage = "Ringing..."],
                   <<"Remote phone ringing">>)
    [] event.type = "call.connected" ->
         appendLog([s EXCEPT !.callState = "in-call",
                             !.statusMessage = "Call connected"],
                   <<"Call connected">>)
    [] event.type = "call.ended" ->
         LET s1 == cleanupPeer(appendLog(s, <<"Remote ended the call">>))
         IN [s1 EXCEPT !.callState = "ended",
                       !.statusMessage = "Call ended by remote",
                       !.callId = NoCall, !.incomingNumber = NullStr]
    [] event.type = "call.error" ->
         LET message == OrElse(event.message, "Call error")
             s1 == appendLog(s, <<message>>)
         IN cleanupPeer([s1 EXCEPT !.callState = "error",
                                   !.statusMessage = message,
                                   !.error = message])
    [] event.type = "signal" ->
         IF event.hasData THEN handleSignal(s) ELSE s
    [] event.type = "presence" ->
         appendLog(s, <<OrElse(event.message, "Presence update")>>)
    [] OTHER ->
         appendLog(s, <<"Unhandled signaling event", event.type>>)

\* ------------------------------------------ connectSignaling / disconnect
\* catch of connectSignaling that leaves signalingStatus as it is
ConnectCatchKeepsStatus(s, message) ==
  LET s1 == [Caught(s) EXCEPT !.statusMessage = message, !.error = message]
      s2 == appendLog(s1, <<"Signaling connection failed", message>>)
  IN [s2 EXCEPT !.signalingClient = Null]

\* catch of connectSignaling
ConnectCatch(s, message) ==
  LET s1 == [Caught(s) EXCEPT !.signalingStatus = "disconnected",
                              !.statusMessage = message, !.error = message]
      s2 == appendLog(s1, <<"Signaling connection failed", message>>)
  IN [s2 EXCEPT !.signalingClient = Null]

\* connectSignaling up to `await fetchAuthToken()`
connectSignaling(s) ==
  IF s.signalingStatus \in {"connected", "connecting"} THEN s
  ELSE [s EXCEPT !.signalingStatus = "connecting",
                 !.statusMessage = "Connecting to signaling...",
                 !.pendingToken = @ + 1]

\* connectSignaling from the settled fetchAuthToken to `await connect(token)`
connectWithToken(s, outcome) ==
  LET s0 == [s EXCEPT !.pendingToken = @ - 1]
  IN CASE outcome = "token" ->
            LET c == Len(s0.clients) + 1
                s1 == [s0 EXCEPT
                         !.clients = Append(@, [socket |-> Null,
                                                connectionPromise |-> Null]),
                         !.signalingClient = c]
            IN ClientConnect(s1, c, TRUE)
       [] outcome = "null" -> ConnectCatch(s0, "Missing auth token")
       [] OTHER -> ConnectCatch(s0, "Failed to fetch")

disconnectSignaling(s) ==
  LET s1 == IF s.signalingClient # Null
            THEN ClientDisconnect(s, s.signalingClient) ELSE s
  IN [s1 EXCEPT !.signalingClient = Null, !.signalingStatus = "disconnected"]

\* --------------------------------------- SignalingClient socket callbacks
\* callbacks.onOpen of the store
onOpen(s) ==
  appendLog([s EXCEPT !.signalingStatus = "connected",
                      !.statusMessage = "Signaling connected"],
            <<"Connected to signaling service">>)

\* callbacks.onClose of the store
onClose(s) ==
  appendLog([s EXCEPT !.signalingStatus = "disconnected",
                      !.statusMessage = "Signaling disconnected"],
            <<"Signaling disconnected">>)

\* callbacks.onError of the store
onError(s) == appendLog(s, <<"Signaling error encountered">>)

\* socket.onmessage that treats a parse failure as fatal and closes
socketOnBadMessageCloses(s, k) == SocketClose(s, k)

\* socket.onmessage of socket k when JSON.parse throws: the catch block
\* warns on the console, which is outside the state
socketOnBadMessage(s, k) == s

\* socket.onopen of socket k: onOpen, then resolve()
socketOnOpen(s, k) ==
  LET s1 == onOpen(s)
  IN [s1 EXCEPT !.sockets[k].promise =
                   IF @ = "pending" THEN "resolved" ELSE @]

\* socket.onerror that only reports: the promise is left alone
socketOnErrorSilent(s, k) == onError(s)

\* socket.onerror of socket k, fired with the socket CLOSED: onError, forget
\* the client's promise, reject(); a connectSignaling invocation suspended on
\* the promise resumes in its catch
socketOnError(s, k) ==
  LET c == s.sockets[k].client
      s1 == onError(s)
      s2 == [s1 EXCEPT !.clients[c].connectionPromise = Null]
  IN IF s2.sockets[k].promise = "pending"
     THEN LET s3 == [s2 EXCEPT !.sockets[k].promise = "rejected"]
          IN IF s3.sockets[k].awaited
             THEN ConnectCatch(s3, "WebSocket error") ELSE s3
     ELSE s2

\* socket.onclose that forgets socket and promise without calling onClose
socketOnCloseQuiet(s, k) ==
  [s EXCEPT !.clients[s.sockets[k].client] =
              [socket |-> Null, connectionPromise |-> Null]]

\* socket.onclose of socket k: onClose, forget socket and promise
socketOnClose(s, k) ==
  LET c == s.sockets[k].client
  IN [onClose(s) EXCEPT !.clients[c] = [socket |-> Null,
                                        connectionPromise |-> Null]]

\* The browser closes socket k: readyState CLOSED, then the error event when
\* the connection failed, then the close event.
socketDown(s, k, failed) ==
  LET s1 == [s EXCEPT !.sockets[k].readyState = "CLOSED"]
      s2 == IF failed THEN socketOnError(s1, k) ELSE s1
  IN socketOnClose(s2, k)

\* The browser opens socket k: readyState OPEN, then the open event.
socketUp(s, k) ==
  socketOnOpen([s EXCEPT !.sockets[k].readyState = "OPEN",
                         !.sockets[k].opened = TRUE], k)

\* ------------------------------------------------- SimplePeer listeners
\* instance.on('signal'): signalingClient?.send({type: 'signal', callId, data})
PeerSignalThrows(s) ==
  s.signalingClient # Null /\ SendThrows(s, s.signalingClient)

peerOnSignal(s, p) ==
  IF s.signalingClient = Null \/ PeerSignalThrows(s) THEN s
  ELSE ClientSend(s, s.signalingClient,
                  Event("signal", s.peers[p].callId, "", p))

\* instance.on('stream'): the remote stream is stored
peerOnStream(s, p) ==
  [s EXCEPT !.nStreams = @ + 1, !.remoteStream = s.nStreams + 1,
            !.peers[p].streamed = TRUE]

\* instance.on('connect')
peerOnConnect(s, p) ==
  appendLog([s EXCEPT !.callState = "in-call", !.statusMessage = "Connected",
                      !.peers[p].connected = TRUE],
            <<"Peer connection established">>)

\* instance.on('close')
peerOnClose(s) == appendLog(s, <<"Peer connection closed">>)

\* instance.on('error')
peerOnError(s) ==
  [s EXCEPT !.callState = "error", !.error = "peer failure",
            !.statusMessage = "Call failed"]

\* simple-peer destroys an instance that fails: 'error', then 'close'
peerFails(s, p) ==
  peerOnClose(peerOnError([s EXCEPT !.peers[p].destroyed = TRUE]))

\* the remote side closes the connection: 'close' alone
peerCloses(s, p) == peerOnClose([s EXCEPT !.peers[p].destroyed = TRUE])

\* an instance emits events while it is not destroyed; they reach the store
\* while its listeners are attached
Emits(p) == ~peers[p].destroyed /\ peers[p].listening

\* ------------------------------------------------------------------ tasks
\* user gestures and store API calls
SetDialNumber ==
  /\ \E value \in DialNumbers :
    Commit(Ran([Cur EXCEPT !.dialNumber = value], "setDialNumber", FALSE))

\* what the dial pad's input can hold: empty, whitespace only, a number
TypedNumbers == DialNumbers \cup {" "}

\* the dial pad's onChange, whitespace included
TypeNumber ==
  /\ \E value \in TypedNumbers :
    Commit(Ran([Cur EXCEPT !.dialNumber = value], "setDialNumber", FALSE))

Dial ==
  /\ \E peerOk \in BOOLEAN :
    Commit(startOutgoingCall(Ran(Cur, "dial", FALSE), peerOk))

Answer ==
  /\ \E peerOk \in BOOLEAN :
    Commit(acceptIncomingCall(Ran(Cur, "answer", FALSE), peerOk))

Hangup ==
  /\ Commit(hangup(Ran(Cur, "hangup", HangupThrows(Cur))))

\* connectSignaling, with at most `limit` connection attempts gone past
\* its guard
ConnectWithin(limit) ==
  /\ \/ signalingStatus \in {"connected", "connecting"}
     \/ Len(clients) + pendingToken < limit
  /\ Commit(connectSignaling(Ran(Cur, "connectSignaling", FALSE)))

ConnectSignaling ==
  /\ ConnectWithin(MaxClients)

\* connectSignaling again after the channel was dropped
Reconnect ==
  /\ ConnectWithin(MaxReconnects)

DisconnectSignaling ==
  /\ Commit(disconnectSignaling(Ran(Cur, "disconnectSignaling", FALSE)))

\* the Softphone panel: the buttons are disabled outside these states
canStartCall == callState \in {"idle", "ended"}
canAnswer == callState = "ringing"
canHangup == callState \in {"connecting", "in-call", "ringing"}

\* clicks on the panel's Call, Answer and Hang up buttons
ClickCall ==
  /\ canStartCall
  /\ Dial

ClickAnswer ==
  /\ canAnswer
  /\ Answer

ClickHangup ==
  /\ canHangup
  /\ Hangup

\* direct calls of the SignalingClient's methods on a constructed client
ClientConnectCall ==
  /\ \E c \in 1..Len(clients) :
    /\ Len(sockets) < MaxSockets \/ ~ConnectOpensSocket(Cur, c)
    /\ Commit(ClientConnect(Ran(Cur, "client.connect", FALSE), c, FALSE))

ClientDisconnectCall ==
  /\ \E c \in 1..Len(clients) :
    Commit(ClientDisconnect(Ran(Cur, "client.disconnect", FALSE), c))

ClientSendCall ==
  /\ \E c \in 1..Len(clients) :
    IF SendThrows(Cur, c)
    THEN Commit(Ran(Cur, "client.send", TRUE))
    ELSE Commit(ClientSend(Ran(Cur, "client.send", FALSE), c,
                           Event("presence", NoCall, "", Null)))

\* settled promises
TokenSettled ==
  /\ pendingToken > 0
  /\ \E outcome \in {"token", "null", "reject"} :
       Commit(connectWithToken(Ran(Cur, "fetchAuthToken", FALSE), outcome))

\* the name under which the resumption of a dial / an answer is recorded
ResumedOp(kind) == IF kind = "dial" THEN "dial.media" ELSE "answer.media"

MediaSettled ==
  /\ \E i \in 1..Len(pendingMedia), mediaOk \in BOOLEAN, peerOk \in BOOLEAN :
    Commit(ResumeAfterMedia(Ran(Cur, ResumedOp(pendingMedia[i].kind), FALSE),
                            i, mediaOk, peerOk))

\* WebSocket events
SocketOpened ==
  /\ \E k \in 1..Len(sockets) :
    /\ sockets[k].readyState = "CONNECTING"
    /\ Commit(socketUp(Ran(Cur, "socket.open", FALSE), k))

SocketClosed ==
  /\ \E k \in 1..Len(sockets), failed \in BOOLEAN :
    /\ sockets[k].readyState # "CLOSED"
    /\ ~sockets[k].opened => failed
    /\ Commit(socketDown(Ran(Cur, "socket.close", FALSE), k, failed))

\* socket.onmessage with a frame that parses to one of `events`
Message(events) ==
  \E k \in 1..Len(sockets), event \in events :
    /\ sockets[k].readyState = "OPEN"
    /\ Commit(handleSignalingEvent(Ran(Cur, event.type, FALSE), event))

SocketMessage ==
  /\ Message(InboundEvents)

\* the inbound frames by kind
SignalEvents == {e \in InboundEvents : e.type = "signal"}
CallEvents == InboundEvents \ SignalEvents
CallControl ==
  /\ Message(CallEvents)

SignalFrame ==
  /\ Message(SignalEvents)

Announce ==
  /\ Message({e \in InboundEvents :
                e.type = "call.incoming" /\ e.callId # NoCall})

RemoteEnd ==
  /\ Message({e \in InboundEvents : e.type = "call.ended"})

\* socket.onmessage with a frame JSON.parse rejects: logged to the console
SocketGarbage ==
  /\ \E k \in 1..Len(sockets) :
    /\ sockets[k].readyState = "OPEN"
    /\ Commit(socketOnBadMessage(Ran(Cur, "malformed", FALSE), k))

\* SimplePeer events
PeerSignal ==
  /\ \E p \in 1..Len(peers) :
    /\ Emits(p)
    /\ Commit(peerOnSignal(Ran(Cur, "peer.signal", PeerSignalThrows(Cur)), p))

PeerStream ==
  /\ \E p \in 1..Len(peers) :
    /\ Emits(p) /\ ~peers[p].streamed
    /\ Commit(peerOnStream(Ran(Cur, "peer.stream", FALSE), p))

PeerConnect ==
  /\ \E p \in 1..Len(peers) :
    /\ Emits(p) /\ ~peers[p].connected
    /\ Commit(peerOnConnect(Ran(Cur, "peer.connect", FALSE), p))

PeerError ==
  /\ \E p \in 1..Len(peers) :
    /\ Emits(p)
    /\ Commit(peerFails(Ran(Cur, "peer.error", FALSE), p))

PeerClose ==
  /\ \E p \in 1..Len(peers) :
    /\ Emits(p)
    /\ Commit(peerCloses(Ran(Cur, "peer.close", FALSE), p))

\* Every task of the program.
Next ==
  \/ SetDialNumber
  \/ Dial
  \/ Answer
  \/ Hangup
  \/ ConnectSignaling
  \/ DisconnectSignaling
  \/ TokenSettled
  \/ MediaSettled
  \/ SocketOpened
  \/ SocketClosed
  \/ SocketMessage
  \/ SocketGarbage
  \/ PeerSignal
  \/ PeerStream
  \/ PeerConnect
  \/ PeerError
  \/ PeerClose

\* The call session: the signaling channel is brought up and may drop, calls
\* are dialled, answered, hung up and ended by the other side, and the peer
\* reports its life cycle.  Negotiation payloads are left to SpecBuffer.
NextCall ==
  \/ SetDialNumber
  \/ Dial
  \/ Answer
  \/ Hangup
  \/ ConnectSignaling
  \/ TokenSettled
  \/ MediaSettled
  \/ SocketOpened
  \/ SocketClosed
  \/ CallControl
  \/ PeerStream
  \/ PeerConnect
  \/ PeerError

Spec == Init /\ [][NextCall]_vars

\* The call session as the Softphone panel drives it: dial, answer and
\* hangup are reached through the panel's buttons alone.
NextPanel ==
  \/ SetDialNumber
  \/ ClickCall
  \/ ClickAnswer
  \/ ClickHangup
  \/ ConnectSignaling
  \/ TokenSettled
  \/ MediaSettled
  \/ SocketOpened
  \/ SocketClosed
  \/ CallControl
  \/ PeerStream
  \/ PeerConnect
  \/ PeerError

SpecPanel == Init /\ [][NextPanel]_vars

\* The signal buffer: inbound negotiation payloads against the creation and
\* teardown of peers.
NextBuffer ==
  \/ SetDialNumber
  \/ Dial
  \/ Answer
  \/ Hangup
  \/ ConnectSignaling
  \/ TokenSettled
  \/ MediaSettled
  \/ SocketOpened
  \/ Announce
  \/ RemoteEnd
  \/ SocketClosed
  \/ SignalFrame
  \/ PeerError

SpecBuffer == Init /\ [][NextBuffer]_vars

\* The signaling connection: connect and disconnect against the fetch of
\* the token and the socket's own events.
NextConn ==
  \/ ConnectSignaling
  \/ DisconnectSignaling
  \/ TokenSettled
  \/ SocketOpened
  \/ SocketClosed

SpecConn == Init /\ [][NextConn]_vars

\* The SignalingClient by itself: the store constructs it and connects it,
\* then its methods are called in any order while its socket opens, fails
\* and closes.
NextClient ==
  \/ ConnectSignaling
  \/ TokenSettled
  \/ ClientConnectCall
  \/ ClientDisconnectCall
  \/ ClientSendCall
  \/ SocketOpened
  \/ SocketClosed

SpecClient == Init /\ [][NextClient]_vars

\* Inbound traffic: every kind of frame, well formed or not, and the
\* answering of the calls it announces.
NextInbound ==
  \/ Answer
  \/ ConnectSignaling
  \/ TokenSettled
  \/ MediaSettled
  \/ SocketOpened
  \/ SocketMessage
  \/ SocketGarbage

SpecInbound == Init /\ [][NextInbound]_vars

\* Reconnection: the signaling channel is connected and dropped again and
\* again while tokens and sockets settle in any order.
NextReconnect ==
  \/ Reconnect
  \/ DisconnectSignaling
  \/ TokenSettled
  \/ SocketOpened
  \/ SocketClosed

SpecReconnect == Init /\ [][NextReconnect]_vars

\* The log alone: appendLog applied over and over, each entry carrying its
\* number in append order.
Appended == IF eventLog = << >> THEN 0 ELSE eventLog[Len(eventLog)][2]

AppendLog ==
  /\ Appended < MaxAppends
  /\ eventLog' = appendLog(Cur, <<"entry", Appended + 1>>).eventLog
  /\ UNCHANGED << callState, signalingStatus, dialNumber, incomingNumber,
                  callId, statusMessage, error, localStream, remoteStream,
                  signalingClient, peer, queuedSignals, clients, sockets,
                  peers, nStreams, stopped, pendingMedia, pendingToken, sent,
                  nUuid, nMedia, nSignals, last >>

NextLog ==
  \/ AppendLog

SpecLog == Init /\ [][NextLog]_vars

\* The dial pad: whatever is typed, dialled with the channel up, down or
\* dropped, and the calls that follow.
NextPad ==
  \/ TypeNumber
  \/ Dial
  \/ Hangup
  \/ ConnectSignaling
  \/ DisconnectSignaling
  \/ TokenSettled
  \/ MediaSettled
  \/ SocketOpened
  \/ SocketClosed
  \/ RemoteEnd

SpecPad == Init /\ [][NextPad]_vars

\* ----------------------------------------------------------------- claims
\* peer instances created and not destroyed
LivePeers == {p \in 1..Len(peers) : ~peers[p].destroyed}

\* the streams the store holds
Held == {localStream, remoteStream} \ {Null}

Terminal == {"ended", "error"}

\* C1: at most one peer instance that has been created and not yet destroyed
\* exists at any time, whatever the interleaving of dial, answer and hangup.
C1_SinglePeer == Cardinality(LivePeers) <= 1

\* C4: a step that moves callState to ended or error leaves localStream and
\* remoteStream null and every stream that was held stopped.
C4_TerminalReleasesMedia ==
  [][ (callState' \in Terminal /\ callState' # callState)
      => /\ localStream' = Null
         /\ remoteStream' = Null
         /\ Held \subseteq stopped' ]_vars

\* C5: whenever callState is idle or ended, localStream and remoteStream are
\* null.
C5_NoMediaAtRest ==
  callState \in {"idle", "ended"} => (localStream = Null /\ remoteStream = Null)

\* C6: hangup invoked in a non-idle state with callId set stops the held
\* streams, detaches and destroys the held peer and moves callState to ended,
\* also when the call.ended frame cannot be sent.
C6_HangupAlwaysCleans ==
  [][ (last'.op = "hangup" /\ callState # "idle" /\ callId # NoCall)
      => /\ callState' = "ended"
         /\ peer' = Null
         /\ peer # Null => (peers'[peer].destroyed /\ ~peers'[peer].listening)
         /\ localStream' = Null
         /\ remoteStream' = Null
         /\ Held \subseteq stopped' ]_vars

\* C7: a failure caught inside dial or answer leaves callState error with an
\* error message, no live peer, both streams null and what was held stopped.
C7_FailureCleansUp ==
  [][ (last'.caught /\ last'.op \in {"dial", "dial.media", "answer", "answer.media"})
      => /\ callState' = "error"
         /\ error' # NullStr
         /\ LivePeers' = {}
         /\ localStream' = Null
         /\ remoteStream' = Null
         /\ (Held \cup ({localStream'} \ {Null})) \subseteq stopped' ]_vars

\* what a second hangup in a row must leave as the first one left it
HangupFrame ==
  /\ sent' = sent
  /\ UNCHANGED << callState, callId, incomingNumber, statusMessage,
                  localStream, remoteStream, peer, peers, stopped,
                  queuedSignals >>

C9_DisconnectWhenDisconnected ==
  [][ (last'.op = "disconnectSignaling" /\ signalingStatus = "disconnected")
      => UNCHANGED << signalingStatus, sockets, callState, callId,
                      statusMessage, eventLog >> ]_vars

\* C10: dial invoked while callState is connecting, ringing, in-call or
\* error, or while an earlier dial or answer is suspended, changes neither
\* callState, callId nor the peer.
C10_DialOnlyAtRest ==
  [][ (last'.op = "dial"
       /\ (callState \notin {"idle", "ended"} \/ pendingMedia # << >>))
      => UNCHANGED << callState, callId, peer >> ]_vars

\* receipt numbers in ascending order
Increasing(q) == \A i, j \in 1..Len(q) : i < j => q[i] < q[j]

\* C2: every peer is handed payloads in the order handleSignalingEvent
\* received them, replayed or live: the replayed ones, all received before
\* the peer existed, come first, and the live ones, all received after, follow;
\* the buffer itself keeps receipt order.
C2_ReceiptOrder ==
  /\ Increasing(queuedSignals)
  /\ \A p \in 1..Len(peers) :
       LET d == peers[p].delivered
       IN /\ Increasing(d)
          /\ \A i \in 1..Len(d) :
               IF i <= peers[p].flushed THEN d[i] <= peers[p].born
               ELSE d[i] > peers[p].born

\* a peer was handed two buffered payloads and then a live one
C2_Witness ==
  \E p \in 1..Len(peers) :
    /\ peers[p].flushed >= 2
    /\ Len(peers[p].delivered) > peers[p].flushed

\* no payload is handed over twice, to one peer or to two
NoDoubleDelivery ==
  \A p, q \in 1..Len(peers) :
    \A i \in 1..Len(peers[p].delivered), j \in 1..Len(peers[q].delivered) :
      (p # q \/ i # j) => peers[p].delivered[i] # peers[q].delivered[j]

\* C3: the step in which dial or answer creates a peer hands it exactly the
\* buffered payloads and leaves the buffer empty, and no payload is ever
\* handed over twice or replayed into a second peer.
C3_FlushOnce ==
  /\ []NoDoubleDelivery
  /\ [][ Len(peers') = Len(peers) + 1
         => /\ peers'[Len(peers')].delivered = queuedSignals
            /\ queuedSignals' = << >> ]_vars

\* a second peer exists after the first was handed buffered payloads, and
\* the second was handed buffered payloads of its own
C3_Witness ==
  /\ Len(peers) = 2
  /\ peers[1].flushed >= 1
  /\ peers[2].flushed >= 1
  /\ queuedSignals = << >>


\* C11: answer invoked in any state other than ringing with callId set
\* acquires no media, creates no peer, sends no call.answer and leaves
\* callState unchanged.
C11_AnswerOnlyWhenRinging ==
  [][ (last'.op = "answer" /\ ~(callState = "ringing" /\ callId # NoCall))
      => UNCHANGED << callState, nMedia, pendingMedia, nStreams, peers,
                      peer, sent >> ]_vars

\* C12: once callState is ended or error, it leaves these states only by a
\* dial or an inbound call.incoming.
C12_TerminalUntilNewAttempt ==
  [][ (callState \in Terminal /\ callState' \notin Terminal)
      => last'.op \in {"dial", "call.incoming"} ]_vars


\* eventLog ends with the entries of a dial, a call.ringing and a
\* call.connected, with no other logged operation in between
ScenarioALogged ==
  LET n == Len(eventLog)
  IN /\ n >= 3
     /\ eventLog[n - 2][1] = "Dialing"
     /\ eventLog[n - 1] = <<"Remote phone ringing">>
     /\ eventLog[n] = <<"Call connected">>

\* C13: with signaling connected, a dial with a non-empty number followed by
\* inbound call.ringing and then call.connected ends with callState in-call
\* and callId the one the dial generated, and none of these steps changes
\* dialNumber.
C13_ScenarioA ==
  /\ []((last.op = "call.connected" /\ ScenarioALogged)
        => /\ callState = "in-call"
           /\ callId = <<"uuid", nUuid>>
           /\ callId # NoCall)
  /\ [][ last'.op \in {"dial", "dial.media", "call.ringing", "call.connected"}
         => dialNumber' = dialNumber ]_vars

\* the scenario has run, the number dialled is still on the dial pad and the
\* call.initiate of this call went out
C13_Witness ==
  /\ last.op = "call.connected" /\ ScenarioALogged
  /\ callState = "in-call"
  /\ dialNumber = "1555" /\ eventLog[Len(eventLog) - 2] = <<"Dialing", "1555">>
  /\ \E i \in 1..Len(sent) :
       sent[i].type = "call.initiate" /\ sent[i].callId = callId


\* the step is an answer that succeeds for the stored call, with no logged
\* operation since the call.incoming that announced it
AnswersTheIncoming ==
  /\ last'.op \in {"answer", "answer.media"} /\ ~last'.caught
  /\ Len(peers') = Len(peers) + 1
  /\ callState = "ringing" /\ callId # NoCall
  /\ peers'[Len(peers')].callId = callId
  /\ eventLog # << >> /\ eventLog[Len(eventLog)][1] = "Incoming call from"
  /\ signalingClient # Null

\* C14: an inbound call.incoming received while idle sets callState to
\* ringing, incomingNumber to the event's from value and callId to the
\* event's callId, or to a freshly generated one when the event has none;
\* an answer that then succeeds sets callState to connecting and sends
\* exactly one call.answer carrying the stored callId.
C14_ScenarioB ==
  /\ [][ (last'.op = "call.incoming" /\ callState = "idle")
         => /\ callState' = "ringing"
            /\ \E e \in InboundEvents :
                 /\ e.type = "call.incoming"
                 /\ incomingNumber' = OrElse(e.from, "Unknown")
                 /\ IF e.callId # NoCall
                    THEN callId' = e.callId /\ nUuid' = nUuid
                    ELSE callId' = <<"uuid", nUuid + 1>> /\ nUuid' = nUuid + 1
       ]_vars
  /\ [][ AnswersTheIncoming
         => /\ callState' = "connecting"
            /\ callId' = callId
            /\ Len(sent') = Len(sent) + 1
            /\ sent'[Len(sent')].type = "call.answer"
            /\ sent'[Len(sent')].callId = callId
            /\ SubSeq(sent', 1, Len(sent)) = sent ]_vars

\* the call announced by +1201 while idle was answered: the store is
\* connecting and its one call.answer carries the announced callId
C14_Witness ==
  /\ last.op = "answer.media" /\ ~last.caught
  /\ callState = "connecting"
  /\ incomingNumber = "+1201"
  /\ callId = <<"remote", 1>>
  /\ eventLog = << <<"Connected to signaling service">>,
                   <<"Incoming call from", "+1201">> >>
  /\ sent = << [Event("call.answer", callId, "", Null) EXCEPT !.socket = 1] >>
  /\ peer # Null /\ ~peers[peer].initiator


\* the signaling channel of the store is not open
ChannelDown ==
  \/ signalingClient = Null
  \/ clients[signalingClient].socket = Null
  \/ sockets[clients[signalingClient].socket].readyState # "OPEN"

\* C15: dial invoked with an empty or whitespace-only dialNumber, or while
\* the signaling channel is not open, changes no call field, sends nothing
\* and appends exactly one eventLog entry.
C15_RefusedDialOnlyLogs ==
  [][ (last'.op = "dial" /\ (dialNumber \in {"", " "} \/ ChannelDown))
      => /\ UNCHANGED << callState, callId, incomingNumber, localStream,
                         remoteStream, peer, peers, sent, pendingMedia,
                         nMedia, queuedSignals >>
         /\ Len(eventLog') = Len(eventLog) + 1
         /\ SubSeq(eventLog', 1, Len(eventLog)) = eventLog ]_vars

\* a dial with a whitespace-only number was refused on an open channel,
\* callState being ended
C15_Witness ==
  /\ last.op = "dial"
  /\ dialNumber = " "
  /\ ~ChannelDown
  /\ eventLog[Len(eventLog)] = <<"Enter a destination number before calling">>
  /\ callState = "ended"
  /\ pendingMedia = << >>


\* C16: after any number of appendLog calls eventLog holds at most 50
\* entries, and they are the most recently appended ones in append order;
\* an append at size 50 evicts the oldest entry and nothing else.
C16_LogKeepsLatestFifty ==
  /\ [](/\ Len(eventLog) <= 50
        /\ Len(eventLog) = IF Appended < 50 THEN Appended ELSE 50
        /\ \A i \in 1..Len(eventLog) :
             eventLog[i] = <<"entry", Appended - Len(eventLog) + i>>)
  /\ [][ eventLog' # eventLog
         => eventLog' = Append(IF Len(eventLog) = 50 THEN Tail(eventLog)
                               ELSE eventLog,
                               <<"entry", Appended + 1>>) ]_vars

\* the log is full and its oldest entries have been evicted
C16_Witness ==
  /\ Len(eventLog) = 50
  /\ eventLog[1] = <<"entry", 21>>
  /\ eventLog[50] = <<"entry", 70>>


\* the sockets of client c in one of the given ready states
SocketsIn(c, states) ==
  {k \in 1..Len(sockets) :
     sockets[k].client = c /\ sockets[k].readyState \in states}

\* C17: connect is single-flight: a connect call opens a socket only when
\* the client has neither an open socket nor an attempt in flight, so that a
\* client never has two connection attempts in flight.
C17_SingleFlight ==
  /\ [](\A c \in 1..Len(clients) :
          Cardinality(SocketsIn(c, {"CONNECTING"})) <= 1)
  /\ [][ (last'.op = "client.connect" /\ sockets' # sockets)
         => SocketsIn(sockets'[Len(sockets')].client,
                      {"CONNECTING", "OPEN"}) = {} ]_vars


\* C18: every promise returned by connect settles with the transport: it is
\* resolved once the socket has opened, rejected once the socket has closed
\* without ever opening, and never pending once the socket is closed.
C18_ConnectSettles ==
  \A k \in 1..Len(sockets) :
    /\ sockets[k].opened => sockets[k].promise = "resolved"
    /\ sockets[k].readyState = "CLOSED" => sockets[k].promise # "pending"
    /\ (sockets[k].readyState = "CLOSED" /\ ~sockets[k].opened)
         => sockets[k].promise = "rejected"
    /\ sockets[k].promise = "rejected" => ~sockets[k].opened

\* one attempt failed and its promise was rejected when the socket closed; a
\* later attempt opened and its promise was resolved
C18_Witness ==
  /\ Len(sockets) >= 2
  /\ sockets[1].readyState = "CLOSED" /\ sockets[1].promise = "rejected"
  /\ sockets[2].readyState = "OPEN" /\ sockets[2].promise = "resolved"

\* C19: send throws whenever the client's socket is absent or not OPEN, and
\* then nothing is transmitted, at once or later; an event goes out only in
\* a send made while the socket is OPEN.
C19_SendOnlyWhenOpen ==
  /\ [][ last'.op = "client.send"
         => \E c \in 1..Len(clients) :
              IF clients[c].socket = Null
                 \/ sockets[clients[c].socket].readyState # "OPEN"
              THEN last'.threw /\ sent' = sent
              ELSE /\ ~last'.threw
                   /\ sent' = Append(sent, sent'[Len(sent')])
                   /\ sent'[Len(sent')].socket = clients[c].socket ]_vars
  /\ [][ sent' # sent
         => /\ Len(sent') = Len(sent) + 1
            /\ SubSeq(sent', 1, Len(sent)) = sent
            /\ sockets[sent'[Len(sent')].socket].readyState = "OPEN" ]_vars

\* an event went out while the socket was open; the socket has closed since
\* and the last send threw, leaving what was transmitted as it was
C19_Witness ==
  /\ last.op = "client.send" /\ last.threw
  /\ Len(sent) = 1
  /\ sockets[sent[1].socket].readyState = "CLOSED"
  /\ clients[sockets[sent[1].socket].client].socket = Null

\* C20: disconnect leaves the client with readyState CLOSED and send
\* throwing, whatever state it was in, and a second disconnect changes
\* nothing.
C20_DisconnectIdempotent ==
  /\ [](\A c \in 1..Len(clients) :
          LET once == ClientDisconnect(Cur, c)
          IN /\ readyState(once, c) = "CLOSED"
             /\ SendThrows(once, c)
             /\ ClientDisconnect(once, c) = once)
  /\ [][ last'.op = "client.disconnect"
         => \E c \in 1..Len(clients) :
              /\ clients'[c].socket = Null
              /\ clients[c].socket # Null
                   => sockets'[clients[c].socket].readyState
                        \in {"CLOSING", "CLOSED"} ]_vars

\* disconnect was called on a client whose socket was open: the socket is
\* closing and the client no longer refers to it
C20_Witness ==
  /\ last.op = "client.disconnect"
  /\ \E k \in 1..Len(sockets) :
       /\ sockets[k].opened /\ sockets[k].readyState = "CLOSING"
       /\ clients[sockets[k].client].socket = Null


\* C21: a malformed inbound frame is dropped: the socket stays open and held
\* by its client, no callback of the store runs, signalingStatus and the
\* call fields are unchanged, and the frames that follow are still handled.
C21_MalformedDropped ==
  /\ [][ last'.op = "malformed"
         => UNCHANGED << callState, signalingStatus, dialNumber,
                         incomingNumber, callId, statusMessage, error,
                         eventLog, localStream, remoteStream,
                         signalingClient, peer, queuedSignals, clients,
                         sockets, peers, stopped, pendingMedia, sent >> ]_vars
  /\ [][ (last.op = "malformed" /\ last'.op = "call.incoming")
         => (callState' = "ringing" /\ callId' # NoCall) ]_vars

\* a malformed frame arrived on the open socket while a call was ringing
C21_Witness ==
  /\ last.op = "malformed"
  /\ callState = "ringing"
  /\ incomingNumber = "+1201"
  /\ signalingStatus = "connected"
  /\ \E k \in 1..Len(sockets) : sockets[k].readyState = "OPEN"


\* the onClose calls the store has logged
ClosesLogged ==
  {i \in 1..Len(eventLog) : eventLog[i] = <<"Signaling disconnected">>}

C23_OneCapture ==
  /\ [](\A x \in 1..nStreams : x \in stopped \/ x \in Held)
  /\ [][ (last'.op \in {"dial", "answer"} /\ localStream # Null)
         => (nMedia' = nMedia /\ pendingMedia' = pendingMedia) ]_vars


\* the signaling transports that are connecting or open
LiveTransports ==
  {k \in 1..Len(sockets) : sockets[k].readyState \in {"CONNECTING", "OPEN"}}

\* C24: across connectSignaling and disconnectSignaling calls and transport
\* events, at most one signaling transport is connecting or open at a time.
C24_SingleTransport == Cardinality(LiveTransports) <= 1


\* C25: when fetchAuthToken returns null, connectSignaling opens no
\* transport and constructs no client; signalingStatus is back to
\* disconnected, error and statusMessage carry the message, the client
\* reference is null and the call fields are unchanged.
C25_NoTokenAborts ==
  [][ (last'.op = "fetchAuthToken" /\ last'.caught
       /\ error' = "Missing auth token")
      => /\ sockets' = sockets
         /\ clients' = clients
         /\ signalingStatus' = "disconnected"
         /\ statusMessage' = "Missing auth token"
         /\ signalingClient' = Null
         /\ UNCHANGED << callState, callId, incomingNumber, dialNumber,
                         localStream, remoteStream, peer, peers,
                         queuedSignals, sent >> ]_vars

\* a connectSignaling was aborted for want of a token
C25_Witness ==
  /\ last.op = "fetchAuthToken" /\ last.caught
  /\ error = "Missing auth token"
  /\ signalingStatus = "disconnected"
  /\ eventLog[Len(eventLog)]
       = <<"Signaling connection failed", "Missing auth token">>
  /\ sockets = << >>


\* C26: an inbound signal carrying a payload is appended to queuedSignals
\* when the store holds no peer and is otherwise handed to the held peer, and
\* never changes callState, callId or incomingNumber.
C26_BufferIffNoPeer ==
  [][ (last'.op = "signal" /\ nSignals' = nSignals + 1)
      => /\ IF peer = Null
            THEN /\ queuedSignals' = Append(queuedSignals, nSignals')
                 /\ peers' = peers
            ELSE /\ queuedSignals' = queuedSignals
                 /\ peers'[peer].delivered
                      = Append(peers[peer].delivered, nSignals')
         /\ UNCHANGED << callState, callId, incomingNumber >> ]_vars


\* C27: hangup invoked while callState is idle leaves callState idle and
\* sends nothing; hangup changes callState only from connecting, ringing or
\* in-call.
C27_HangupOnlyInCall ==
  [][ last'.op = "hangup"
      => /\ callState = "idle" => (callState' = "idle" /\ sent' = sent)
         /\ callState' # callState
              => callState \in {"connecting", "ringing", "in-call"} ]_vars

\* C28: an inbound call.ringing moves callState to ringing when callState is
\* connecting, and leaves callState alone in every other state.
C28_RingingOnlyFromConnecting ==
  [][ last'.op = "call.ringing"
      => callState' = IF callState = "connecting" THEN "ringing"
                      ELSE callState ]_vars

\* C29: incomingNumber is null in every state where callState is not
\* ringing.
C29_IncomingNumberOnlyRinging ==
  callState # "ringing" => incomingNumber = NullStr

\* C30: callId is set whenever callState is connecting, ringing or in-call,
\* and null whenever callState is idle or ended.
C30_CallIdFollowsState ==
  /\ callState \in {"connecting", "ringing", "in-call"} => callId # NoCall
  /\ callState \in {"idle", "ended"} => callId = NoCall


\* C31: dialNumber changes only by setDialNumber and only between call
\* attempts.  The claim says while callState is idle; ended, from where a
\* dial may start as well, is admitted here too.
C31_DialNumberOnlyWhileIdle ==
  [][ dialNumber' # dialNumber
      => (last'.op = "setDialNumber" /\ callState \in {"idle", "ended"}) ]_vars

\* C32: an inbound call.ended or call.error leaves no live peer, both
\* streams null and stopped and queuedSignals empty; call.ended sets
\* callState ended and clears callId and incomingNumber, call.error sets
\* callState error with the event's message, or the default, as error and
\* statusMessage.
C32_RemoteTeardown ==
  [][ last'.op \in {"call.ended", "call.error"}
      => /\ LivePeers' = {}
         /\ localStream' = Null /\ remoteStream' = Null
         /\ Held \subseteq stopped'
         /\ queuedSignals' = << >>
         /\ last'.op = "call.ended"
              => /\ callState' = "ended"
                 /\ callId' = NoCall
                 /\ incomingNumber' = NullStr
         /\ last'.op = "call.error"
              => /\ callState' = "error"
                 /\ error' \in {"busy", "Call error"}
                 /\ statusMessage' = error' ]_vars


\* C33: a call.initiate goes out only in the step of a dial in which the
\* local stream is held, the initiator peer has been created and the whole
\* buffer has been flushed into it; it carries the callId generated by that
\* dial and the dialNumber read when the dial started, and no dial sends a
\* second one.
C33_InitiateAfterSetup ==
  /\ [][ (Len(sent') > Len(sent)
          /\ sent'[Len(sent')].type = "call.initiate")
         => LET ev == sent'[Len(sent')]
                n == Len(peers')
            IN /\ last'.op \in {"dial", "dial.media"}
               /\ sent' = Append(sent, ev)
               /\ localStream' # Null
               /\ n = Len(peers) + 1 /\ peer' = n
               /\ peers'[n].initiator /\ peers'[n].callId = ev.callId
               /\ peers'[n].delivered = queuedSignals
               /\ queuedSignals' = << >>
               /\ IF last'.op = "dial"
                  THEN ev.to = dialNumber /\ ev.callId = <<"uuid", nUuid + 1>>
                  ELSE \E i \in 1..Len(pendingMedia) :
                         /\ pendingMedia[i] = [kind |-> "dial",
                                               callId |-> ev.callId,
                                               to |-> ev.to]
                         /\ pendingMedia' = RemoveAt(pendingMedia, i) ]_vars
  /\ [](\A i, j \in 1..Len(sent) :
          (sent[i].type = "call.initiate" /\ sent[j].type = "call.initiate"
           /\ sent[i].callId = sent[j].callId) => i = j)

\* a call.initiate went out for the number dialled although the dial pad was
\* cleared during the acquisition, and after buffered payloads were flushed
C33_Witness ==
  /\ dialNumber = ""
  /\ peer # Null
  /\ peers[peer].initiator /\ peers[peer].flushed >= 1
  /\ \E i \in 1..Len(sent) :
       /\ sent[i].type = "call.initiate"
       /\ sent[i].to = "1555"
       /\ sent[i].callId = peers[peer].callId


\* C34: a connect, error or stream event of a peer instance changes
\* callState or remoteStream, or sends a signaling event, only when the
\* instance is the one the store currently holds; an instance whose call
\* attempt was torn down acts no more.
C34_OnlyHeldPeerActs ==
  [][ (/\ last'.op \in {"peer.connect", "peer.error", "peer.stream"}
       /\ \/ callState' # callState
          \/ remoteStream' # remoteStream
          \/ sent' # sent)
      => (peer # Null /\ peers'[peer] # peers[peer]) ]_vars


\* C35: an inbound presence event or an event of an unrecognized type
\* appends one entry to eventLog and changes nothing else: callState, callId,
\* incomingNumber, dialNumber, signalingStatus, error, both streams, the peer
\* and queuedSignals stay as they were.
C35_PresenceAndUnknownOnlyLog ==
  [][ last'.op \in {"presence", "mystery"}
      => /\ Len(eventLog') = Len(eventLog) + 1
         /\ SubSeq(eventLog', 1, Len(eventLog)) = eventLog
         /\ eventLog'[Len(eventLog')]
              = IF last'.op = "presence" THEN <<"agent online">>
                ELSE <<"Unhandled signaling event", "mystery">>
         /\ UNCHANGED <<callState, callId, incomingNumber, dialNumber,
                        signalingStatus, error, statusMessage, localStream,
                        remoteStream, peer, peers, queuedSignals,
                        signalingClient, sent, stopped>> ]_vars

\* an unrecognized event arrived while an answered call held its peer and
\* its local stream
C35_Witness ==
  /\ last.op = "mystery"
  /\ peer # Null /\ ~peers[peer].destroyed
  /\ localStream # Null
  /\ callState = "connecting"
  /\ eventLog[Len(eventLog)] = <<"Unhandled signaling event", "mystery">>


\* C36: between handler executions the signal buffer is empty whenever a peer
\* instance is held; a non-empty buffer implies that no peer is held.
C36_BufferEmptyWhilePeerHeld ==
  peer # Null => queuedSignals = << >>

\* a second peer is held after payloads were buffered, flushed into it and
\* then delivered to it directly
C36_Witness ==
  /\ Len(peers) = 2 /\ peer = 2
  /\ ~peers[2].destroyed
  /\ peers[2].flushed >= 1
  /\ Len(peers[2].delivered) > peers[2].flushed
  /\ last.op = "signal"


\* C37: whenever callState is ended the store holds no live peer instance,
\* also when a dial or answer suspended on the media acquisition resumes
\* after a hangup or an inbound call.ended tore the attempt down.
C37_EndedHoldsNoPeer ==
  callState = "ended" => (peer = Null \/ peers[peer].destroyed)


\* C38: signalingStatus is connected exactly when the store's signaling
\* client exists and its socket is open, whatever the interleaving of
\* disconnectSignaling, connectSignaling and the late open and close
\* callbacks of a discarded client.
C38_StatusIsChannel ==
  (signalingStatus = "connected") <=> ~ChannelDown


\* C39: within one client, a socket that is connecting or open is the one
\* the client refers to: the close event of an earlier socket clears neither
\* the reference to the later socket nor its in-flight promise, so send
\* succeeds on the open socket and a further connect opens no other.
C39_LateCloseSparesLaterSocket ==
  \A k \in 1..Len(sockets) :
    sockets[k].readyState \in {"CONNECTING", "OPEN"}
      => /\ clients[sockets[k].client].socket = k
         /\ sockets[k].readyState = "CONNECTING"
              => clients[sockets[k].client].connectionPromise = k


\* C40: while the held peer instance is live, callId is the callId the peer
\* was created with; no inbound event changes callId under a live peer.
C40_CallIdOfLivePeer ==
  (peer # Null /\ ~peers[peer].destroyed) => callId = peers[peer].callId

=============================================================================
